---- MODULE Spec2Model ----
(***************************************************************************)
(* Model of the forex signal bot: the edge function of src/src/App.tsx     *)
(* (symbol mapping, upstream fetch, indicators, signal rule, request       *)
(* handler) and the dashboard of src/src/components/TradingDashboard.tsx   *)
(* (selection state, fetchDataAndSignal, refresh button).                  *)
(*                                                                         *)
(* Numbers.  A JavaScript number is modelled by the exact rational it      *)
(* denotes, [t, neg, num, den] with num, den arbitrary-precision naturals  *)
(* (little-endian sequences of base-2^10 limbs), so that 13^n and 27^n of  *)
(* the EMA recursion are computed, not approximated.  calcRSI rounds the   *)
(* result of every operation to the nearest IEEE double, ties to even, as  *)
(* its range depends on it; the other indicators are kept exact.  NaN,     *)
(* null and undefined are values of the same shape with t = "NaN", ...     *)
(*                                                                         *)
(* Strings the code transforms (pair, symbol) are sequences of             *)
(* one-character strings; strings it only copies are TLA+ strings.         *)
(***************************************************************************)
EXTENDS Integers, Sequences, FiniteSets, TLC

VARIABLES
    call,         \* harness of the pure functions: the function and its arguments
    ret,          \* harness: its return value, "pending" before the call
    supabase,     \* TradingDashboard.tsx:10-17, TRUE iff the client was created
    mounted,      \* the dashboard's mount effect has run
    selectedPair, selectedTimeframe, data, loading, error,  \* useState, :41-45
    dataFrom,     \* history: the invocation whose response data holds, 0 for none
    inv           \* the invocations of the edge function, in order of arrival

vars == <<call, ret, supabase, mounted, selectedPair, selectedTimeframe,
          data, loading, error, dataFrom, inv>>

-----------------------------------------------------------------------------
(* Bounds of the model *)

\* the longest of the enumerated price series
MaxLen == 4
\* the largest price of the enumerated series
MaxPrice == 3
\* the largest of the enumerated periods
MaxPeriod == 3
\* the invocations the dashboard makes
MaxRequests == 2
\* the invocations of a caller other than the dashboard
MaxDirect == 1

-----------------------------------------------------------------------------
(* Arbitrary-precision naturals: little-endian limbs, no high zero limb *)

Base == 2^10

RECURSIVE BigOf(_)
BigOf(n) == IF n = 0 THEN <<>> ELSE <<n % Base>> \o BigOf(n \div Base)

Limb(a, i) == IF i <= Len(a) THEN a[i] ELSE 0

Max(x, y) == IF x >= y THEN x ELSE y
Min(x, y) == IF x <= y THEN x ELSE y

BigNorm(a) ==
    IF \A i \in 1..Len(a) : a[i] = 0 THEN <<>>
    ELSE SubSeq(a, 1, CHOOSE i \in 1..Len(a) :
                        a[i] # 0 /\ \A j \in (i + 1)..Len(a) : a[j] = 0)

\* limbs in 0..2*Base-2 made limbs in 0..Base-1: the carry into limb i is 1 iff
\* a lower limb overflows and every limb between is Base-1
Ripple(s) ==
    LET carry(i) == \E j \in 1..(i - 1) :
                        s[j] >= Base /\ \A k \in (j + 1)..(i - 1) : s[k] = Base - 1
    IN BigNorm(<<>> \o [i \in 1..(Len(s) + 1) |->
                          (Limb(s, i) + (IF carry(i) THEN 1 ELSE 0)) % Base])

BigAdd(a, b) ==
    Ripple(<<>> \o [i \in 1..Max(Len(a), Len(b)) |-> Limb(a, i) + Limb(b, i)])

\* a - b for a >= b: the borrow into limb i is 1 iff a lower limb is negative
\* and every limb between is 0
BigSub(a, b) ==
    LET d == <<>> \o [i \in 1..Len(a) |-> a[i] - Limb(b, i)]
        borrow(i) == \E j \in 1..(i - 1) :
                         d[j] < 0 /\ \A k \in (j + 1)..(i - 1) : d[k] = 0
    IN BigNorm(<<>> \o [i \in 1..Len(a) |->
                          (d[i] - (IF borrow(i) THEN 1 ELSE 0) + Base) % Base])

\* -1, 0, 1 as a < b, a = b, a > b
BigCmp(a, b) ==
    IF Len(a) # Len(b) THEN (IF Len(a) < Len(b) THEN -1 ELSE 1)
    ELSE IF a = b THEN 0
    ELSE LET i == CHOOSE h \in 1..Len(a) :
                      a[h] # b[h] /\ \A j \in (h + 1)..Len(a) : a[j] = b[j]
         IN IF a[i] < b[i] THEN -1 ELSE 1

\* sum over i in lo..hi of a[i] * b[k + 1 - i]
RECURSIVE ColSum(_, _, _, _, _)
ColSum(a, b, k, lo, hi) ==
    IF lo > hi THEN 0 ELSE (a[lo] * b[k + 1 - lo]) + ColSum(a, b, k, lo + 1, hi)

\* one round of carries: each limb keeps its remainder and takes the quotient below
Pass(c) ==
    <<>> \o [i \in 1..(Len(c) + 1) |->
               (Limb(c, i) % Base) + (IF i > 1 THEN c[i - 1] \div Base ELSE 0)]

BigMul(a, b) ==
    IF a = <<>> \/ b = <<>> THEN <<>>
    ELSE IF a = <<1>> THEN b
    ELSE IF b = <<1>> THEN a
    ELSE IF Len(a) = 1 /\ Len(b) = 1 THEN BigOf(a[1] * b[1])
    ELSE LET cols == <<>> \o [k \in 1..(Len(a) + Len(b) - 1) |->
                                ColSum(a, b, k, Max(1, k + 1 - Len(b)), Min(Len(a), k))]
         IN Ripple(Pass(Pass(Pass(cols))))

-----------------------------------------------------------------------------
(* Exact rationals: the values of JavaScript numbers *)

Rat(neg, num, den) ==
    [t |-> "number", neg |-> neg /\ num # <<>>, num |-> num, den |-> den]

\* the integer n
N(n) == Rat(n < 0, BigOf(IF n < 0 THEN -n ELSE n), BigOf(1))

\* the quotient n / d of two integers, d > 0
Q(n, d) == Rat(n < 0, BigOf(IF n < 0 THEN -n ELSE n), BigOf(d))

QNeg(a) == Rat(~a.neg, a.num, a.den)

\* the remainder by m, 0 < m < Base, of the limbs of a from the i-th on
RECURSIVE RemFrom(_, _, _)
RemFrom(a, m, i) ==
    IF i > Len(a) THEN 0 ELSE ((RemFrom(a, m, i + 1) * Base) + a[i]) % m

\* a \div m for 0 < m < Base
BigDivSmall(a, m) ==
    IF m = 1 THEN a
    ELSE BigNorm(<<>> \o [i \in 1..Len(a) |-> ((RemFrom(a, m, i + 1) * Base) + a[i]) \div m])

\* the denominator d is one limb and divides e
Divides(d, e) == Len(d) = 1 /\ RemFrom(e, d[1], 1) = 0

\* x / d and y / d added with their signs
SignedSum(aneg, x, bneg, y, d) ==
    IF aneg = bneg THEN Rat(aneg, BigAdd(x, y), d)
    ELSE IF BigCmp(x, y) >= 0 THEN Rat(aneg, BigSub(x, y), d)
    ELSE Rat(bneg, BigSub(y, x), d)

\* a common denominator d of da and db and the factors that bring them to it: the
\* larger one when a single-limb denominator divides the other, the product otherwise
CommonDen(da, db) ==
    IF Divides(da, db) THEN [fa |-> BigDivSmall(db, da[1]), fb |-> BigOf(1), d |-> db]
    ELSE IF Divides(db, da) THEN [fa |-> BigOf(1), fb |-> BigDivSmall(da, db[1]), d |-> da]
    ELSE [fa |-> db, fb |-> da, d |-> BigMul(da, db)]

AddOver(a, b, c) ==
    SignedSum(a.neg, BigMul(a.num, c.fa), b.neg, BigMul(b.num, c.fb), c.d)

QAdd(a, b) == AddOver(a, b, CommonDen(a.den, b.den))

QSub(a, b) == QAdd(a, QNeg(b))

QMul(a, b) == Rat(a.neg # b.neg, BigMul(a.num, b.num), BigMul(a.den, b.den))

\* a / b for b # 0
QDiv(a, b) == Rat(a.neg # b.neg, BigMul(a.num, b.den), BigMul(a.den, b.num))

QIsZero(a) == a.num = <<>>

QSign(a) == IF a.num = <<>> THEN 0 ELSE IF a.neg THEN -1 ELSE 1

QEq(a, b) == QIsZero(QSub(a, b))

QLt(a, b) == QSign(QSub(a, b)) < 0

QLe(a, b) == QSign(QSub(a, b)) <= 0

-----------------------------------------------------------------------------
(* IEEE doubles: rounding to 53 significant bits, ties to even.  Overflow to *)
(* Infinity and subnormal numbers are out of the model's range.              *)

\* the bits of a limb t > 0
BitLenLimb(t) == CHOOSE b \in 1..10 : 2^(b - 1) <= t /\ t < 2^b

\* the bits of a > 0
BitLen(a) == (10 * (Len(a) - 1)) + BitLenLimb(a[Len(a)])

\* a * 2^k
Shl(a, k) ==
    IF a = <<>> THEN <<>>
    ELSE (<<>> \o [i \in 1..(k \div 10) |-> 0]) \o BigMul(a, <<2^(k % 10)>>)

\* the binary digits of r / d, r < d, that follow bits, up to n digits in all: the
\* digits and what is left of r
RECURSIVE Digits(_, _, _, _)
RECURSIVE DigitStep(_, _, _, _)
Digits(r, d, n, bits) ==
    IF Len(bits) >= n THEN [bits |-> bits, rest |-> r]
    ELSE DigitStep(BigAdd(r, r), d, n, bits)

DigitStep(r2, d, n, bits) ==
    IF BigCmp(r2, d) >= 0 THEN Digits(BigSub(r2, d), d, n, Append(bits, 1))
    ELSE Digits(r2, d, n, Append(bits, 0))

\* the same, ten digits at a time
RECURSIVE DigitsByTen(_, _, _)
DigitsByTen(d, n, dg) ==
    IF Len(dg.bits) >= n THEN dg
    ELSE DigitsByTen(d, n, Digits(dg.rest, d, Min(n, Len(dg.bits) + 10), dg.bits))

\* the weight of the digits j .. j + 9 (from the right, 0-based) of bits
RECURSIVE WeighBits(_, _, _)
WeighBits(bits, j, t) ==
    IF t > 9 \/ j + t >= Len(bits) THEN 0
    ELSE (bits[Len(bits) - (j + t)] * 2^t) + WeighBits(bits, j, t + 1)

\* the natural whose binary digits, most significant first, are bits
BigOfBits(bits) ==
    BigNorm(<<>> \o [i \in 1..((Len(bits) + 9) \div 10) |->
                        WeighBits(bits, 10 * (i - 1), 0)])

\* m * 2^x
Dyadic(neg, m, x) ==
    IF x >= 0 THEN Rat(neg, Shl(m, x), BigOf(1))
    ELSE Rat(neg, m, Shl(BigOf(1), -x))

\* the 53-bit mantissa m goes up when the digit after it is 1 and a later one is
\* not 0 or m is odd
RoundMantissa(neg, e, m, up) ==
    Dyadic(neg, IF up THEN BigAdd(m, BigOf(1)) ELSE m, e - 52)

RoundDigits(neg, e, dg) ==
    RoundMantissa(neg, e, BigOfBits(<<1>> \o SubSeq(dg.bits, 1, 52)),
                  dg.bits[53] = 1 /\ (dg.rest # <<>> \/ dg.bits[52] = 1))

\* n / d in [1, 2) times 2^e, rounded
RoundScaled(neg, n, d, e) ==
    RoundDigits(neg, e, DigitsByTen(d, 53, [bits |-> <<>>, rest |-> BigSub(n, d)]))

\* a in [2^e, 2^(e+1)), rounded
RoundAt(a, e) ==
    RoundScaled(a.neg, Shl(a.num, Max(0, -e)), Shl(a.den, Max(0, e)), e)

\* the e with 2^e <= n / d < 2^(e+1), e0 being the difference of the bit lengths
Exponent(n, d, e0) ==
    IF BigCmp(Shl(n, Max(0, -e0)), Shl(d, Max(0, e0))) >= 0 THEN e0 ELSE e0 - 1

\* the double nearest to the number a; an integer below 2^53 is one
RoundDouble(a) ==
    IF a.num = <<>> THEN a
    ELSE IF a.den = BigOf(1) /\ BitLen(a.num) <= 53 THEN a
    ELSE RoundAt(a, Exponent(a.num, a.den, BitLen(a.num) - BitLen(a.den)))

\* a + b, a - b and a / b of two doubles
DoubleAdd(a, b) == RoundDouble(QAdd(a, b))
DoubleSub(a, b) == RoundDouble(QSub(a, b))
DoubleDiv(a, b) == RoundDouble(QDiv(a, b))

-----------------------------------------------------------------------------
(* JavaScript values *)

\* null, NaN and undefined have the shape of a number, so that any two values compare
Null == [t |-> "null", neg |-> FALSE, num |-> <<>>, den |-> <<>>]
NaN == [t |-> "NaN", neg |-> FALSE, num |-> <<>>, den |-> <<>>]
Undefined == [t |-> "undefined", neg |-> FALSE, num |-> <<>>, den |-> <<>>]

IsNum(v) == v.t = "number"

\* a < b and a > b of JavaScript on a number or NaN: false when either is NaN
JsLt(a, b) == IsNum(a) /\ IsNum(b) /\ QLt(a, b)
JsGt(a, b) == JsLt(b, a)

\* a - b on numbers, NaN and undefined
JsSub(a, b) == IF IsNum(a) /\ IsNum(b) THEN QSub(a, b) ELSE NaN

\* values.slice(-n)
SliceLast(values, n) ==
    IF n = 0 \/ n >= Len(values) THEN values
    ELSE SubSeq(values, Len(values) - n + 1, Len(values))

\* a + b on numbers and NaN
JsAdd(a, b) == IF IsNum(a) /\ IsNum(b) THEN QAdd(a, b) ELSE NaN

\* values.reduce((a, b) => a + b, acc) from index i (1-based) on; the sum so far
\* is evaluated before the loop goes on, and NaN + b is NaN
RECURSIVE ReduceFrom(_, _, _)
ReduceFrom(values, i, acc) ==
    IF ~IsNum(acc) \/ i > Len(values) THEN acc
    ELSE ReduceFrom(values, i + 1, JsAdd(acc, values[i]))

\* values.reduce((a, b) => a + b, 0)
ReduceSum(values) == ReduceFrom(values, 1, N(0))

-----------------------------------------------------------------------------
(* App.tsx: symbol mapping *)

LowerCase == <<"a","b","c","d","e","f","g","h","i","j","k","l","m",
               "n","o","p","q","r","s","t","u","v","w","x","y","z">>
UpperCase == <<"A","B","C","D","E","F","G","H","I","J","K","L","M",
               "N","O","P","Q","R","S","T","U","V","W","X","Y","Z">>

\* c.toUpperCase() of one character
ToUpper(c) ==
    IF \E i \in 1..Len(LowerCase) : LowerCase[i] = c
    THEN UpperCase[CHOOSE i \in 1..Len(LowerCase) : LowerCase[i] = c]
    ELSE c

\* s.replace(".", ""): the first "." is removed, later ones stay
RemoveFirstDot(s) ==
    IF \E i \in 1..Len(s) : s[i] = "."
    THEN LET i == CHOOSE j \in 1..Len(s) : s[j] = "." /\ \A h \in 1..(j - 1) : s[h] # "."
         IN SubSeq(s, 1, i - 1) \o SubSeq(s, i + 1, Len(s))
    ELSE s

getYahooSymbol(pair) ==
    LET stripped == RemoveFirstDot(pair)
    IN [i \in 1..Len(stripped) |-> ToUpper(stripped[i])] \o <<"=", "X">>

-----------------------------------------------------------------------------
(* App.tsx: indicators *)

SmaPeriod == 20
RsiPeriod == 14
EmaFast == 12
EmaSlow == 26
BollPeriod == 20
StochPeriod == 14

\* calcSMA with slice(0, period) for slice(-period)
calcSMA_head(values, period) ==
    IF Len(values) < period THEN Null
    ELSE QDiv(ReduceSum(SubSeq(values, 1, period)), N(period))

calcSMA(values, period) ==
    IF Len(values) < period THEN Null
    ELSE QDiv(ReduceSum(SliceLast(values, period)), N(period))

\* the literal 1e-9: the double nearest to 10^-9
Epsilon == RoundDouble(Q(1, 10^9))

\* the body of the for loop of calcRSI
RsiStep(acc, diff) ==
    IF QSign(diff) > 0
    THEN [gains |-> DoubleAdd(acc.gains, diff), losses |-> acc.losses]
    ELSE [gains |-> acc.gains, losses |-> DoubleSub(acc.losses, diff)]

\* the for loop of calcRSI from index i (1-based) to the end: [gains, losses], the
\* sums so far evaluated before the loop goes on
RECURSIVE RsiLoop(_, _, _)
RsiLoop(values, i, acc) ==
    IF ~IsNum(acc.gains) \/ ~IsNum(acc.losses) \/ i > Len(values) THEN acc
    ELSE RsiLoop(values, i + 1, RsiStep(acc, DoubleSub(values[i], values[i - 1])))

\* gains / (losses || 1e-9)
RelativeStrength(acc) ==
    DoubleDiv(acc.gains, IF QIsZero(acc.losses) THEN Epsilon ELSE acc.losses)

\* RsiOfSums returning 100 / (1 + rs) for 100 - 100 / (1 + rs)
RsiOfSums_complement(acc) ==
    IF QIsZero(DoubleAdd(acc.gains, acc.losses)) THEN N(50)
    ELSE DoubleDiv(N(100), DoubleAdd(N(1), RelativeStrength(acc)))

\* calcRSI after its loop
RsiOfSums(acc) ==
    IF QIsZero(DoubleAdd(acc.gains, acc.losses)) THEN N(50)
    ELSE DoubleSub(N(100), DoubleDiv(N(100), DoubleAdd(N(1), RelativeStrength(acc))))

calcRSI(values, period) ==
    IF Len(values) < period + 1 THEN Null
    ELSE RsiOfSums(RsiLoop(values, Len(values) - period + 1,
                           [gains |-> N(0), losses |-> N(0)]))

\* ema(period) of calcMACD, the loop from index i (1-based) on; emaPrev is
\* evaluated before the loop goes on
RECURSIVE EmaLoop(_, _, _, _)
EmaLoop(values, k, i, emaPrev) ==
    IF ~IsNum(emaPrev) \/ i > Len(values) THEN emaPrev
    ELSE EmaLoop(values, k, i + 1,
                 QAdd(QMul(values[i], k), QMul(emaPrev, QSub(N(1), k))))

ema(values, period) ==
    IF values = <<>> THEN Undefined
    ELSE EmaLoop(values, Q(2, period + 1), 2, values[1])

calcMACD(values) == JsSub(ema(values, EmaFast), ema(values, EmaSlow))

\* x ** 2
Square(x) == QMul(x, x)

\* slice.reduce((a, b) => a + (b - sma) ** 2, acc) from index i (1-based) on
RECURSIVE SquaresFrom(_, _, _, _)
SquaresFrom(slice, sma, i, acc) ==
    IF ~IsNum(acc) \/ i > Len(slice) THEN acc
    ELSE SquaresFrom(slice, sma, i + 1, QAdd(acc, Square(QSub(slice[i], sma))))

\* slice.reduce((a, b) => a + (b - sma) ** 2, 0)
SumSquares(slice, sma) == SquaresFrom(slice, sma, 1, N(0))

\* base + coef * Math.sqrt(radicand), the square root kept symbolic
Surd(base, coef, radicand) == [base |-> base, coef |-> coef, radicand |-> radicand]

\* the record calcBollinger returns, variance being the radicand of std
Bands(sma, variance) ==
    [upper |-> Surd(sma, 2, variance), lower |-> Surd(sma, -2, variance), sma |-> sma]

\* calcBollinger from its std on
BollingerAround(slice, period, sma) ==
    Bands(sma, QDiv(SumSquares(slice, sma), N(period)))

\* calcBollinger from its sma on
BollingerOfSlice(slice, period) ==
    BollingerAround(slice, period, QDiv(ReduceSum(slice), N(period)))

calcBollinger(values, period) ==
    IF Len(values) < period THEN Null
    ELSE BollingerOfSlice(SliceLast(values, period), period)

\* Math.max(...slice) and Math.min(...slice) of a non-empty slice
MathMax(slice) ==
    slice[CHOOSE i \in 1..Len(slice) : \A j \in 1..Len(slice) : QLe(slice[j], slice[i])]

MathMin(slice) ==
    slice[CHOOSE i \in 1..Len(slice) : \A j \in 1..Len(slice) : QLe(slice[i], slice[j])]

\* the value calcStochastic returns: close = low when high = low, and 0 / 0 is NaN
StochasticOf(close, high, low) ==
    IF QEq(high, low) THEN NaN
    ELSE QMul(QDiv(QSub(close, low), QSub(high, low)), N(100))

\* calcStochastic from its high on
StochasticOfSlice(close, slice) == StochasticOf(close, MathMax(slice), MathMin(slice))

calcStochastic(values, period) ==
    IF Len(values) < period THEN Null
    ELSE StochasticOfSlice(values[Len(values)], SliceLast(values, period))

-----------------------------------------------------------------------------
(* App.tsx: signal rule *)

Signal(s, c) == [signal |-> s, confidence |-> c]

\* generateSignal with <= and >= for < and > in the two band rules
generateSignal_inclusive(rsi, macd, stochastic) ==
    IF rsi # Null /\ macd # Null /\ stochastic # Null
    THEN IF ~JsGt(rsi, N(35)) /\ IsNum(rsi) /\ JsGt(macd, N(0))
            /\ ~JsGt(stochastic, N(20)) /\ IsNum(stochastic)
            THEN Signal("Buy", Q(85, 100))
         ELSE IF ~JsLt(rsi, N(65)) /\ IsNum(rsi) /\ JsLt(macd, N(0))
            /\ ~JsLt(stochastic, N(80)) /\ IsNum(stochastic)
            THEN Signal("Sell", Q(85, 100))
         ELSE IF JsGt(macd, N(0)) THEN Signal("Buy", Q(6, 10))
         ELSE IF JsLt(macd, N(0)) THEN Signal("Sell", Q(6, 10))
         ELSE Signal("Hold", Q(5, 10))
    ELSE Signal("Hold", Q(5, 10))

generateSignal(rsi, macd, stochastic) ==
    IF rsi # Null /\ macd # Null /\ stochastic # Null
    THEN IF JsLt(rsi, N(35)) /\ JsGt(macd, N(0)) /\ JsLt(stochastic, N(20))
            THEN Signal("Buy", Q(85, 100))
         ELSE IF JsGt(rsi, N(65)) /\ JsLt(macd, N(0)) /\ JsGt(stochastic, N(80))
            THEN Signal("Sell", Q(85, 100))
         ELSE IF JsGt(macd, N(0)) THEN Signal("Buy", Q(6, 10))
         ELSE IF JsLt(macd, N(0)) THEN Signal("Sell", Q(6, 10))
         ELSE Signal("Hold", Q(5, 10))
    ELSE Signal("Hold", Q(5, 10))

-----------------------------------------------------------------------------
(* Price series of the model *)

\* the numbers of a sequence of integers
Nums(s) == [i \in 1..Len(s) |-> N(s[i])]

\* all sequences over 0..MaxPrice of length at most MaxLen
PriceSeqs == UNION {[1..n -> 0..MaxPrice] : n \in 0..MaxLen}

Rising(n) == [i \in 1..n |-> i]
Falling(n) == [i \in 1..n |-> n + 1 - i]
Flat(n) == [i \in 1..n |-> 5]
\* a jump up, then n - 2 steps down by one
Spike(n) == [i \in 1..n |-> IF i = 1 THEN 0 ELSE 102 - i]
\* a jump down, then n - 2 steps up by one
Dip(n) == [i \in 1..n |-> IF i = 1 THEN 100 ELSE i - 2]

\* series long enough for the periods the handler uses
LongSeqs == {Rising(21), Falling(21), Flat(21), Spike(21), Dip(21),
             Rising(RsiPeriod), Rising(RsiPeriod + 1), Rising(SmaPeriod - 1)}

-----------------------------------------------------------------------------
(* App.tsx: fetchYahooData and the request handler *)

Chars_eur_usd == <<"e","u","r",".","u","s","d">>
Chars_eur_jpy == <<"e","u","r",".","j","p","y">>
Chars_usd_chf == <<"u","s","d",".","c","h","f">>
Chars_eur_cad == <<"e","u","r",".","c","a","d">>
Chars_aud_usd == <<"a","u","d",".","u","s","d">>

\* the defaults of the destructuring at App.tsx:97
DefaultPair == Chars_eur_usd
DefaultTimeframe == "1m"

\* the URL's search parameter, or the default when the URL has none of that name
SearchParam(query, name, default) ==
    IF name \in DOMAIN query THEN query[name] ELSE default

\* fetchYahooData_send issuing the request a second time
fetchYahooData_send_twice(symbol, interval) ==
    <<[symbol |-> symbol, interval |-> interval, range |-> "1d"],
      [symbol |-> symbol, interval |-> interval, range |-> "1d"]>>

\* fetchYahooData up to its await: the HTTP requests it issues
fetchYahooData_send(symbol, interval) ==
    <<[symbol |-> symbol, interval |-> interval, range |-> "1d"]>>

Threw(message) == [threw |-> TRUE, message |-> message, value |-> Null]
Value(v) == [threw |-> FALSE, message |-> "", value |-> v]

\* fetchYahooData_receive without the test of res.ok
fetchYahooData_receive_unchecked(reply) ==
    IF reply.kind = "reject" THEN Threw("error sending request")
    ELSE Value(reply)

\* fetchYahooData from the await of fetch to the await of res.json(): the response
\* whose body it goes on to read, or the error it throws
fetchYahooData_receive(reply) ==
    IF reply.kind = "reject" THEN Threw("error sending request")
    ELSE IF ~reply.ok THEN Threw("Failed to fetch Yahoo Finance data")
    ELSE Value(reply)

\* fetchYahooData from the await of res.json() on: the data it returns or the
\* error it throws
fetchYahooData_json(res) ==
    IF ~res.json.valid THEN Threw("Unexpected end of JSON input")
    ELSE Value(res.json)

\* close.filter((v) => v !== null)
RECURSIVE FilterNotNull(_)
FilterNotNull(close) ==
    IF close = <<>> THEN <<>>
    ELSE (IF close[1] # Null THEN <<close[1]>> ELSE <<>>) \o FilterNotNull(Tail(close))

\* data.chart.result[0].indicators.quote[0].close.filter(...)
ExtractCloses(json) ==
    IF json.result = "null"
        THEN Threw("Cannot read properties of null (reading '0')")
    ELSE IF json.result = "empty"
        THEN Threw("Cannot read properties of undefined (reading 'indicators')")
    ELSE Value(FilterNotNull(json.close))

\* JSON.stringify of a number: NaN becomes null
JsonNumber(v) == IF v.t = "NaN" THEN Null ELSE v

\* App.tsx:102-108: the indicators of a price series and the signal of three of them
WithSignal(closes, rsi, macd, stochastic) ==
    [lastPrice |-> IF closes = <<>> THEN Undefined ELSE closes[Len(closes)],
     sma |-> calcSMA(closes, SmaPeriod),
     rsi |-> rsi,
     macd |-> macd,
     boll |-> calcBollinger(closes, BollPeriod),
     stochastic |-> stochastic,
     signal |-> generateSignal(rsi, macd, stochastic)]

Indicators(closes) ==
    WithSignal(closes, calcRSI(closes, RsiPeriod), calcMACD(closes),
               calcStochastic(closes, StochPeriod))

\* JSON.stringify of the success record: a key whose value is undefined is left out
SuccessBody(pair, ind) ==
    LET rest == [pair |-> pair, sma |-> ind.sma, rsi |-> JsonNumber(ind.rsi),
                 macd |-> JsonNumber(ind.macd), boll |-> ind.boll,
                 stochastic |-> JsonNumber(ind.stochastic), signal |-> ind.signal]
    IN IF ind.lastPrice = Undefined THEN rest
       ELSE ("lastPrice" :> ind.lastPrice) @@ rest

-----------------------------------------------------------------------------
(* The edge function's invocations *)

\* JSON bodies of the upstream's replies
Json(result, close) == [valid |-> TRUE, result |-> result, close |-> close]
InvalidJson == [valid |-> FALSE, result |-> "null", close |-> <<>>]

\* the close arrays the upstream may send, null entries included
CloseArrays ==
    {<<>>, <<Null, Null>>, <<N(5)>>, <<Null, N(1), N(2)>>,
     Nums(Flat(21)), <<Null>> \o Nums(Spike(21)), Nums(Dip(21)) \o <<Null>>}

NoReply == [kind |-> "none", ok |-> FALSE, json |-> InvalidJson]

UpstreamReplies ==
    {[kind |-> "reject", ok |-> FALSE, json |-> InvalidJson]}
    \cup {[kind |-> "response", ok |-> FALSE, json |-> j] :
            j \in {InvalidJson, Json("null", <<>>), Json("present", Nums(Rising(21)))}}
    \cup {[kind |-> "response", ok |-> TRUE, json |-> j] :
            j \in {InvalidJson, Json("null", <<>>), Json("empty", <<>>)}}
    \cup {[kind |-> "response", ok |-> TRUE, json |-> Json("present", c)] :
            c \in CloseArrays}

NoResponse == [status |-> 0, body |-> <<>>]

ErrorResponse(message) == [status |-> 500, body |-> [error |-> message]]

\* the handler once the body of the upstream's response is read (App.tsx:30-31,
\* 100-124)
serve_respond(pair, res) ==
    LET fetched == fetchYahooData_json(res)
    IN IF fetched.threw THEN ErrorResponse(fetched.message)
       ELSE LET closes == ExtractCloses(fetched.value)
            IN IF closes.threw THEN ErrorResponse(closes.message)
               ELSE [status |-> 200,
                     body |-> SuccessBody(pair, Indicators(closes.value))]

-----------------------------------------------------------------------------
(* Harness of the pure functions: call holds the arguments, ret the result *)

NoCall == [fn |-> "none"]
NoRet == [done |-> FALSE, value |-> Undefined]
Returned(v) == [done |-> TRUE, value |-> v]

SmaCalls ==
    {[fn |-> "calcSMA", values |-> v, period |-> p] :
        v \in PriceSeqs \cup {<<-1, 2, -3>>}, p \in 1..MaxPeriod}
    \cup {[fn |-> "calcSMA", values |-> <<1, 2, 3, 4, 5>>, period |-> 3]}
    \cup {[fn |-> "calcSMA", values |-> v, period |-> SmaPeriod] : v \in LongSeqs}

\* rises around the one from which 100 / (1 + gains / 1e-9) is less than half the
\* distance of 100 to the double below it
SteepSeqs == {<<0, 14073748>>, <<0, 14073749>>, <<0, 20000000>>,
              <<0, 7036874, 14073748>>, <<0, 7036874, 14073749>>,
              <<0, 14073749, 14073748>>, <<1, 0, 20000000>>}

RsiCalls ==
    {[fn |-> "calcRSI", values |-> v, period |-> p] :
        v \in PriceSeqs, p \in 1..MaxPeriod}
    \cup {[fn |-> "calcRSI", values |-> v, period |-> RsiPeriod] : v \in LongSeqs}
    \cup {[fn |-> "calcRSI", values |-> v, period |-> Len(v) - 1] : v \in SteepSeqs}

RsiSamples == {Null, NaN, N(0), N(30), N(35), N(50), N(65), N(70), N(100)}
MacdSamples == {Null, NaN, N(-1), N(0), Q(1, 2), N(1)}
StochSamples == {Null, NaN, N(0), N(10), N(20), N(50), N(80), N(90), N(100)}

SignalCalls ==
    {[fn |-> "generateSignal", rsi |-> r, macd |-> m, stochastic |-> st] :
        r \in RsiSamples, m \in MacdSamples, st \in StochSamples}

ApplySMA ==
    /\ call.fn = "calcSMA" /\ ~ret.done
    /\ ret' = Returned(calcSMA(Nums(call.values), call.period))
    /\ UNCHANGED <<call, supabase, mounted, selectedPair, selectedTimeframe,
                   data, loading, error, dataFrom, inv>>

ApplyRSI ==
    /\ call.fn = "calcRSI" /\ ~ret.done
    /\ ret' = Returned(calcRSI(Nums(call.values), call.period))
    /\ UNCHANGED <<call, supabase, mounted, selectedPair, selectedTimeframe,
                   data, loading, error, dataFrom, inv>>

ApplySignal ==
    /\ call.fn = "generateSignal" /\ ~ret.done
    /\ ret' = Returned(generateSignal(call.rsi, call.macd, call.stochastic))
    /\ UNCHANGED <<call, supabase, mounted, selectedPair, selectedTimeframe,
                   data, loading, error, dataFrom, inv>>

\* an HTTP request to the edge function: the URL's search parameters and the body
Request(query, body) == [query |-> query, body |-> body]

NoBody == [pair |-> <<>>, timeframe |-> ""]

\* requests of a caller other than the dashboard
DirectRequests ==
    {Request(q, NoBody) :
        q \in {<<>>, [pair |-> Chars_eur_jpy], [timeframe |-> "5m"],
               [pair |-> Chars_usd_chf, timeframe |-> "3m"]}}
    \cup {Request(<<>>, [pair |-> Chars_aud_usd, timeframe |-> "5m"]),
          Request([pair |-> Chars_eur_cad], [pair |-> Chars_aud_usd, timeframe |-> "3m"])}

Invocation(origin, req) ==
    [origin |-> origin, req |-> req, pc |-> "sent", pair |-> <<>>,
     upstream |-> <<>>, reply |-> NoReply, response |-> NoResponse]

\* a caller other than the dashboard requests the function's URL
DirectCall(req) ==
    /\ Len(inv) < MaxDirect
    /\ inv' = Append(inv, Invocation("direct", req))
    /\ UNCHANGED <<call, ret, supabase, mounted, selectedPair, selectedTimeframe,
                   data, loading, error, dataFrom>>

\* the handler up to the await of the upstream fetch (App.tsx:96-100, 27-28)
ServeStart(i) ==
    /\ inv[i].pc = "sent"
    /\ LET pair == SearchParam(inv[i].req.query, "pair", DefaultPair)
           timeframe == SearchParam(inv[i].req.query, "timeframe", DefaultTimeframe)
           symbol == getYahooSymbol(pair)
           interval == timeframe
       IN inv' = [inv EXCEPT ![i].pc = "fetching", ![i].pair = pair,
                             ![i].upstream = @ \o fetchYahooData_send(symbol, interval)]
    /\ UNCHANGED <<call, ret, supabase, mounted, selectedPair, selectedTimeframe,
                   data, loading, error, dataFrom>>

\* fetch resolves or rejects: fetchYahooData throws, and the handler's catch
\* responds, or it goes on to await the body (App.tsx:28-30, 122-124)
ServeFetched(i, reply) ==
    /\ inv[i].pc = "fetching"
    /\ LET res == fetchYahooData_receive(reply)
       IN inv' = IF res.threw
                 THEN [inv EXCEPT ![i].pc = "responded", ![i].reply = reply,
                                  ![i].response = ErrorResponse(res.message)]
                 ELSE [inv EXCEPT ![i].pc = "reading", ![i].reply = reply]
    /\ UNCHANGED <<call, ret, supabase, mounted, selectedPair, selectedTimeframe,
                   data, loading, error, dataFrom>>

\* res.json() settles and the handler runs to its response (App.tsx:30-31, 100-124)
ServeFinish(i) ==
    /\ inv[i].pc = "reading"
    /\ inv' = [inv EXCEPT ![i].pc = "responded",
                          ![i].response = serve_respond(inv[i].pair, inv[i].reply)]
    /\ UNCHANGED <<call, ret, supabase, mounted, selectedPair, selectedTimeframe,
                   data, loading, error, dataFrom>>

-----------------------------------------------------------------------------
(* TradingDashboard.tsx *)

currencyPairs ==
    <<Chars_eur_usd, Chars_eur_jpy, Chars_usd_chf, Chars_eur_cad, Chars_aud_usd>>

timeframes == <<"1m", "3m", "5m">>

\* the options the model's user picks among
PickedPairs == {currencyPairs[1], currencyPairs[2]}
PickedTimeframes == {timeframes[1], timeframes[3]}

NoData == [isNull |-> TRUE, value |-> <<>>]

\* fetchDataAndSignal up to its await, with the selection its closure holds
\* (TradingDashboard.tsx:47-64)
FetchStart(pair, timeframe) ==
    IF ~supabase
    THEN /\ error' = "Supabase client not initialized. Cannot fetch data."
         /\ loading' = FALSE
         /\ UNCHANGED <<data, dataFrom, inv>>
    ELSE /\ loading' = TRUE
         /\ error' = ""
         /\ data' = NoData
         /\ dataFrom' = 0
         \* supabase.functions.invoke posts the body; the URL has no search parameters
         /\ inv' = Append(inv, Invocation("dashboard",
                              Request(<<>>, [pair |-> pair, timeframe |-> timeframe])))

\* the mount effect (TradingDashboard.tsx:83-86)
Mount ==
    /\ ~mounted
    /\ Len(inv) < MaxRequests
    /\ mounted' = TRUE
    /\ FetchStart(selectedPair, selectedTimeframe)
    /\ UNCHANGED <<call, ret, supabase, selectedPair, selectedTimeframe>>

\* onChange of the pair select, and the effect the new fetchDataAndSignal triggers
\* (TradingDashboard.tsx:102, 81-86)
SelectPair(p) ==
    /\ mounted
    /\ p # selectedPair
    /\ Len(inv) < MaxRequests
    /\ selectedPair' = p
    /\ FetchStart(p, selectedTimeframe)
    /\ UNCHANGED <<call, ret, supabase, mounted, selectedTimeframe>>

\* onChange of the timeframe select, and the effect (TradingDashboard.tsx:121, 81-86)
SelectTimeframe(t) ==
    /\ mounted
    /\ t # selectedTimeframe
    /\ Len(inv) < MaxRequests
    /\ selectedTimeframe' = t
    /\ FetchStart(selectedPair, t)
    /\ UNCHANGED <<call, ret, supabase, mounted, selectedPair>>

\* onClick of the refresh button, disabled while loading or without a client
\* (TradingDashboard.tsx:189-191)
ClickRefresh ==
    /\ mounted
    /\ ~(loading \/ ~supabase)
    /\ Len(inv) < MaxRequests
    /\ FetchStart(selectedPair, selectedTimeframe)
    /\ UNCHANGED <<call, ret, supabase, mounted, selectedPair, selectedTimeframe>>

\* fetchDataAndSignal from its await on (TradingDashboard.tsx:59-80): invoke gives
\* an error for a non-2xx response and the parsed body otherwise
Deliver(i) ==
    /\ inv[i].origin = "dashboard"
    /\ inv[i].pc = "responded"
    /\ LET response == inv[i].response
           functionError == response.status \notin 200..299
       IN IF functionError
          THEN /\ error' = "Function invocation error: Edge Function returned a non-2xx status code"
               /\ UNCHANGED <<data, dataFrom>>
          ELSE IF "error" \in DOMAIN response.body
          THEN /\ error' = "Data fetching error from function: " \o response.body.error
               /\ UNCHANGED <<data, dataFrom>>
          ELSE /\ data' = [isNull |-> FALSE, value |-> response.body]
               /\ dataFrom' = i
               /\ UNCHANGED error
    /\ loading' = FALSE
    /\ inv' = [inv EXCEPT ![i].pc = "done"]
    /\ UNCHANGED <<call, ret, supabase, mounted, selectedPair, selectedTimeframe>>

-----------------------------------------------------------------------------
(* Specifications *)

Idle ==
    /\ mounted = FALSE
    /\ selectedPair = currencyPairs[1]
    /\ selectedTimeframe = timeframes[1]
    /\ data = NoData
    /\ loading = FALSE
    /\ error = ""
    /\ dataFrom = 0
    /\ inv = <<>>

\* the dashboard and the edge function it invokes
Init ==
    /\ call = NoCall /\ ret = NoRet
    /\ supabase \in BOOLEAN
    /\ Idle

Next ==
    \/ Mount
    \/ \E p \in PickedPairs : SelectPair(p)
    \/ \E t \in PickedTimeframes : SelectTimeframe(t)
    \/ ClickRefresh
    \/ \E i \in 1..Len(inv) : ServeStart(i)
    \/ \E i \in 1..Len(inv) : \E reply \in UpstreamReplies : ServeFetched(i, reply)
    \/ \E i \in 1..Len(inv) : ServeFinish(i)
    \/ \E i \in 1..Len(inv) : Deliver(i)

Spec == Init /\ [][Next]_vars

\* the edge function alone, requested over HTTP
InitServe ==
    /\ call = NoCall /\ ret = NoRet
    /\ supabase = FALSE
    /\ Idle

NextServe ==
    \/ \E req \in DirectRequests : DirectCall(req)
    \/ \E i \in 1..Len(inv) : ServeStart(i)
    \/ \E i \in 1..Len(inv) : \E reply \in UpstreamReplies : ServeFetched(i, reply)
    \/ \E i \in 1..Len(inv) : ServeFinish(i)

SpecServe == InitServe /\ [][NextServe]_vars

\* calcSMA on bounded inputs
InitSMA == call \in SmaCalls /\ ret = NoRet /\ supabase = FALSE /\ Idle
SpecSMA == InitSMA /\ [][ApplySMA]_vars

\* calcRSI on bounded inputs
InitRSI == call \in RsiCalls /\ ret = NoRet /\ supabase = FALSE /\ Idle
SpecRSI == InitRSI /\ [][ApplyRSI]_vars

\* generateSignal on sampled inputs
InitSignal == call \in SignalCalls /\ ret = NoRet /\ supabase = FALSE /\ Idle
SpecSignal == InitSignal /\ [][ApplySignal]_vars

-----------------------------------------------------------------------------
(* Properties of generateSignal, under SpecSignal *)

BuyBand(rsi, macd, stochastic) ==
    JsLt(rsi, N(35)) /\ JsGt(macd, N(0)) /\ JsLt(stochastic, N(20))

SellBand(rsi, macd, stochastic) ==
    JsGt(rsi, N(65)) /\ JsLt(macd, N(0)) /\ JsGt(stochastic, N(80))

AllPresent(rsi, macd, stochastic) == rsi # Null /\ macd # Null /\ stochastic # Null

SignalReturned == call.fn = "generateSignal" /\ ret.done

\* C1: whenever macd is present and neither band rule matches, also when rsi or
\* stochastic is absent, macd > 0 gives Buy/0.6 and macd < 0 gives Sell/0.6
C1_MacdAloneDecides ==
    SignalReturned =>
        LET strong == AllPresent(call.rsi, call.macd, call.stochastic)
                      /\ (BuyBand(call.rsi, call.macd, call.stochastic)
                          \/ SellBand(call.rsi, call.macd, call.stochastic))
        IN (call.macd # Null /\ ~strong) =>
              /\ JsGt(call.macd, N(0)) => ret.value = Signal("Buy", Q(6, 10))
              /\ JsLt(call.macd, N(0)) => ret.value = Signal("Sell", Q(6, 10))

\* C5: the confidence is 0.85 iff all three are present and a band rule matches
\* with strict comparisons, Buy for the low band and Sell for the high band, and
\* every result is one of the five
C5_StrongIffBand ==
    SignalReturned =>
        LET present == AllPresent(call.rsi, call.macd, call.stochastic)
            buy == present /\ BuyBand(call.rsi, call.macd, call.stochastic)
            sell == present /\ SellBand(call.rsi, call.macd, call.stochastic)
        IN /\ QEq(ret.value.confidence, Q(85, 100)) <=> (buy \/ sell)
           /\ buy => ret.value.signal = "Buy"
           /\ sell => ret.value.signal = "Sell"
           /\ ret.value \in {Signal("Buy", Q(85, 100)), Signal("Sell", Q(85, 100)),
                             Signal("Buy", Q(6, 10)), Signal("Sell", Q(6, 10)),
                             Signal("Hold", Q(5, 10))}

\* C5 witness: rsi on the boundary 35 with macd > 0 and stochastic < 20 gives Buy/0.6
C5_BoundaryReached ==
    /\ SignalReturned
    /\ call.rsi = N(35) /\ call.macd = N(1) /\ call.stochastic = N(10)
    /\ ret.value = Signal("Buy", Q(6, 10))

-----------------------------------------------------------------------------
(* Properties of calcSMA, under SpecSMA *)

RECURSIVE SumInts(_, _, _)
SumInts(v, lo, hi) == IF lo > hi THEN 0 ELSE v[lo] + SumInts(v, lo + 1, hi)

\* C7: calcSMA is absent iff the series is shorter than the period, and otherwise
\* period times the result is the sum of the last period values
C7_SmaIsTrailingMean ==
    (call.fn = "calcSMA" /\ ret.done) =>
        LET v == call.values
            p == call.period
        IN /\ ret.value = Null <=> Len(v) < p
           /\ Len(v) >= p =>
                /\ IsNum(ret.value)
                /\ QEq(QMul(ret.value, N(p)), N(SumInts(v, Len(v) - p + 1, Len(v))))

\* C7 witness: calcSMA([1,2,3,4,5], 3) has returned 4
C7_ExampleReached ==
    /\ call.fn = "calcSMA" /\ ret.done
    /\ call.values = <<1, 2, 3, 4, 5>> /\ call.period = 3
    /\ QEq(ret.value, N(4))

-----------------------------------------------------------------------------
(* Properties of calcRSI, under SpecRSI *)

\* the indices of the last period transitions
Window(v, p) == (Len(v) - p + 1)..Len(v)

RsiReturned == call.fn = "calcRSI" /\ ret.done

\* C8 as stated: absent iff fewer than period + 1 values, otherwise strictly
\* between 0 and 100, and 50 on a flat window
C8_RsiStrictlyInside ==
    RsiReturned =>
        LET v == call.values
            p == call.period
        IN /\ ret.value = Null <=> Len(v) < p + 1
           /\ Len(v) >= p + 1 =>
                /\ QLt(N(0), ret.value) /\ QLt(ret.value, N(100))
                /\ (\A i \in Window(v, p) : v[i] = v[i - 1]) => QEq(ret.value, N(50))

\* C8 amended: absent iff fewer than period + 1 values, otherwise at least 0 and
\* at most 100; 0 when the window has a fall and no rise, 50 on a flat window, and
\* 100 exactly when the window has no fall and rises by 14073749 or more in all
C8_RsiFromZeroToHundred ==
    RsiReturned =>
        LET v == call.values
            p == call.period
        IN /\ ret.value = Null <=> Len(v) < p + 1
           /\ Len(v) >= p + 1 =>
                /\ IsNum(ret.value)
                /\ QLe(N(0), ret.value) /\ QLe(ret.value, N(100))
                /\ (/\ \A i \in Window(v, p) : v[i] <= v[i - 1]
                    /\ \E i \in Window(v, p) : v[i] < v[i - 1]) => QIsZero(ret.value)
                /\ (\A i \in Window(v, p) : v[i] = v[i - 1]) => QEq(ret.value, N(50))
                /\ QEq(ret.value, N(100)) <=>
                        /\ \A i \in Window(v, p) : v[i] >= v[i - 1]
                        /\ v[Len(v)] - v[Len(v) - p] >= 14073749

\* C8 witness: a falling series under the default period has RSI 0
C8_ZeroReached ==
    /\ RsiReturned
    /\ call.values = Falling(21) /\ call.period = RsiPeriod
    /\ QIsZero(ret.value)

\* a rise of 20000000 under period 1 has RSI exactly 100
C8_HundredReached ==
    /\ RsiReturned
    /\ call.values = <<0, 20000000>> /\ call.period = 1
    /\ QEq(ret.value, N(100))

\* a rise of 14073748 under period 1 has an RSI below 100
C8_BelowHundredReached ==
    /\ RsiReturned
    /\ call.values = <<0, 14073748>> /\ call.period = 1
    /\ QLt(ret.value, N(100))

-----------------------------------------------------------------------------
(* Properties of the request handler, under SpecServe *)

Responded(i) == inv[i].pc \in {"responded", "done"}

FetchFailed(reply) == reply.kind = "reject" \/ (reply.kind = "response" /\ ~reply.ok)

IsErrorPayload(response) ==
    response.status \notin 200..299 /\ DOMAIN response.body = {"error"}

\* C2: after a failed upstream fetch the response is an error payload and nothing
\* else, with a non-success status
C2_FetchFailureGivesOnlyError ==
    \A i \in 1..Len(inv) :
        (Responded(i) /\ FetchFailed(inv[i].reply)) =>
            /\ IsErrorPayload(inv[i].response)
            /\ inv[i].reply.kind = "response" =>
                  inv[i].response.body.error = "Failed to fetch Yahoo Finance data"

\* C2 witness: a non-2xx reply whose body holds usable prices was answered by an error
C2_FailureReached ==
    \E i \in 1..Len(inv) :
        /\ Responded(i)
        /\ inv[i].reply.kind = "response" /\ ~inv[i].reply.ok
        /\ inv[i].reply.json.valid /\ inv[i].reply.json.result = "present"
        /\ IsErrorPayload(inv[i].response)

\* C3: a successful upstream reply without a result set, or with no price left
\* after the nulls are dropped, ends in an error payload
C3_NoPricesGivesError ==
    \A i \in 1..Len(inv) :
        (/\ Responded(i)
         /\ inv[i].reply.kind = "response" /\ inv[i].reply.ok /\ inv[i].reply.json.valid
         /\ \/ inv[i].reply.json.result # "present"
            \/ FilterNotNull(inv[i].reply.json.close) = <<>>)
        => IsErrorPayload(inv[i].response)

\* C6: an invocation has issued no upstream request before the handler runs and
\* exactly one from then on, whatever the outcome
C6_ExactlyOneUpstreamRequest ==
    \A i \in 1..Len(inv) :
        /\ inv[i].pc = "sent" => Len(inv[i].upstream) = 0
        /\ inv[i].pc # "sent" => Len(inv[i].upstream) = 1

\* C6 witness: an invocation has answered 200 to a request that names a pair,
\* having issued one upstream request
C6_OneRequestReached ==
    \E i \in 1..Len(inv) :
        /\ Responded(i) /\ inv[i].response.status = 200
        /\ "pair" \in DOMAIN inv[i].req.query
        /\ Len(inv[i].upstream) = 1

-----------------------------------------------------------------------------
(* Properties of the dashboard with the edge function, under Spec *)

FromDashboard(i) == inv[i].origin = "dashboard"

InFlight == \E i \in 1..Len(inv) : FromDashboard(i) /\ inv[i].pc # "done"

\* C4: the upstream request of a dashboard invocation is for the symbol of the
\* pair and the timeframe the dashboard sent, and a success record names that pair
C4_CallerSelectionUsed ==
    \A i \in 1..Len(inv) :
        (FromDashboard(i) /\ inv[i].pc # "sent") =>
            /\ inv[i].upstream[1].symbol = getYahooSymbol(inv[i].req.body.pair)
            /\ inv[i].upstream[1].interval = inv[i].req.body.timeframe
            /\ (Responded(i) /\ inv[i].response.status = 200) =>
                  inv[i].response.body.pair = inv[i].req.body.pair

\* C9: once no request is in flight, data that is shown was fetched for the
\* selected pair and timeframe
C9_DataMatchesSelection ==
    (~InFlight /\ ~data.isNull) =>
        inv[dataFrom].req.body = [pair |-> selectedPair, timeframe |-> selectedTimeframe]

\* C10: loading is true while a request of the dashboard is in flight
C10_LoadingWhileInFlight == InFlight => loading

====
